---- MODULE Spec2Model ----
(***************************************************************************)
(* The bitwire API client (package bitwire, client.go): the token          *)
(* lifecycle (Authenticate, RefreshToken, the pre-call check of the        *)
(* authenticated operations) and the dispatch of requests through callApi. *)
(* The HTTP server and the clock are the environment: every request draws  *)
(* a response and a latency from a small set.                              *)
(***************************************************************************)
EXTENDS Integers, Sequences, FiniteSets, TLC

VARIABLES client, now, issued, last, builtMode, authenticated, granted, file, cli, procs, roundtrip

vars == <<client, now, issued, last, builtMode, authenticated, granted, file, cli, procs, roundtrip>>

\* The client library with its histories, the command line program with its
\* config files, the goroutines that share a client, and the config that is
\* written and read back.
libVars == <<client, now, issued, last, builtMode, authenticated, granted>>
cliVars == <<file, cli>>
concVars == <<procs>>
jsonVars == <<roundtrip>>

(***************************************************************************)
(* Bounds of the model.                                                    *)
(***************************************************************************)
\* Unix time at which the client is constructed.
StartTime == 100
\* The clock runs from StartTime to StartTime + Horizon.
Horizon == 2
\* A request takes between 0 and MaxDelay seconds.
MaxDelay == 1
\* The server grants at most MaxIssued tokens.
MaxIssued == 2

MaxNow == StartTime + Horizon

(***************************************************************************)
(* Program constants.                                                      *)
(***************************************************************************)
\* checkToken: now >= c.token.ValidUntil-30
Margin == 30

PRODUCTION == "production"
SANDBOX == "sandbox"

baseURL == "https://www.bitwire.co/api/v1/"
sandboxBaseURL == "https://sandbox.bitwire.co/api/v1/"

GET == "GET"
POST == "POST"
JSON_POST == "JSON_POST"
DELETE == "DELETE"

\* The nil error.
Nil == "<nil>"
\* No Authorization header on a request.
NoHeader == "<none>"

(***************************************************************************)
(* Data types: Token, Credentials, LoginCredentials, TokenCredentials,     *)
(* Config, Client.                                                         *)
(***************************************************************************)
Token(tt, at, rt, ei, vu) == [TokenType |-> tt, AccessToken |-> at, RefreshToken |-> rt, ExpiresIn |-> ei, ValidUntil |-> vu]

\* Token{}
ZeroToken == Token("", "", "", 0, 0)

Credentials(id, secret, grant) == [ClientId |-> id, ClientSecret |-> secret, GrantType |-> grant]

\* Credentials{}
ZeroCredentials == Credentials("", "", "")

LoginCredentials(creds, user, pass) == [Credentials |-> creds, Username |-> user, Password |-> pass]

TokenCredentials(creds, rt) == [Credentials |-> creds, RefreshToken |-> rt]

Config(creds, tok) == [Credentials |-> creds, Token |-> tok]

Client(mode, tok, creds) == [Mode |-> mode, token |-> tok, credentials |-> creds]

\* The error object of a response: ErrorRes{Res{Code}, Error{Message, ErrorType}}.
ErrorRes(code, message, errorType) == [Code |-> code, Message |-> message, ErrorType |-> errorType]

ZeroErrorRes == ErrorRes(0, "", "")

\* The success value of a response, as far as the client reads it: the code,
\* the token fields of a TokenRes, and the payload of the other responses.
SuccessRes(code, tok, data) == [Code |-> code, Token |-> tok, Data |-> data]

ZeroRes == SuccessRes(0, ZeroToken, "")

(***************************************************************************)
(* Requests, as sling builds them in callApi.                              *)
(***************************************************************************)
NoParams == [form |-> "nil"]

\* BodyForm(LoginCredentials): the url-tagged fields of the struct.
LoginForm(l) == [form |-> "login", client_id |-> l.Credentials.ClientId, client_secret |-> l.Credentials.ClientSecret, grant_type |-> l.Credentials.GrantType, username |-> l.Username, password |-> l.Password]

\* BodyForm(TokenCredentials): the url-tagged fields of the struct.
RefreshForm(tc) == [form |-> "refresh", client_id |-> tc.Credentials.ClientId, client_secret |-> tc.Credentials.ClientSecret, grant_type |-> tc.Credentials.GrantType, refresh_token |-> tc.RefreshToken]

\* BodyJSON(CreateTransfer).
TransferJSON(tr) == [form |-> "transfer", amount |-> tr.amount, currency |-> tr.currency, recipient_id |-> tr.recipient_id, memo |-> tr.memo, type |-> tr.type]

\* verb and url of the request, its Authorization header, and its body with
\* the encoding of the body ("form", "json", "query" or "none").
Request(verb, base, path, auth, enc, params) == [verb |-> verb, base |-> base, path |-> path, auth |-> auth, enc |-> enc, params |-> params]

TokenPath == "oauth/tokens"

IsRefreshRequest(req) == req.path = TokenPath /\ req.params.form = "refresh"

IsLoginRequest(req) == req.path = TokenPath /\ req.params.form = "login"

AuthPaths == {"recipients", "transfers", "transfers/t1", "users/limits"}

(***************************************************************************)
(* The environment: the responses of the server and the network.           *)
(***************************************************************************)
\* The JSON object of a response body; an absent field is the zero value.
Body(code, message, errorType, tt, at, rt, ei, data) == [code |-> code, message |-> message, errorType |-> errorType, token_type |-> tt, access_token |-> at, refresh_token |-> rt, expires_in |-> ei, data |-> data]

\* The JSON object {}.
EmptyBody == Body(0, "", "", "", "", "", 0, "")

Response(net, status, json, body) == [net |-> net, status |-> status, json |-> json, body |-> body]

\* The connection fails: no response.
Down == Response("down", "", FALSE, EmptyBody)

\* A body that is not the JSON the client expects.
Malformed == Response("ok", "200", FALSE, EmptyBody)

\* Bodies with a field of the wrong JSON type: the decoder fills the fields
\* that fit (the payload, the token type) and reports the one that does not.
Mistyped == {Response("ok", "200", FALSE, Body(0, "", "", "", "", "", 0, "data")), Response("ok", "200", FALSE, Body(0, "", "", "Bearer", "", "", 0, ""))}

\* The n-th grant of the server: a fresh access token and a fresh refresh token.
Grant(n, ei) == Response("ok", "200", TRUE, Body(200, "", "", "Bearer", "at" \o ToString(n), "rt" \o ToString(n), ei, ""))

\* The payload of the endpoints other than oauth/tokens.
DataOK == Response("ok", "200", TRUE, Body(200, "", "", "", "", "", 0, "data"))

\* The error objects the server sends.
ErrorBodies == {Body(401, "Invalid token.", "Unauthorized", "", "", "", 0, "")}

\* The lifetimes the server grants: within the margin, and just beyond it.
ExpiresChoices == {Margin, Margin + 1}

Responses(n) == {Down, Malformed, DataOK} \cup Mistyped \cup {Response("ok", st, TRUE, EmptyBody) : st \in {"200", "401"}} \cup {Grant(n + 1, ei) : ei \in ExpiresChoices} \cup {Response("ok", st, TRUE, b) : st \in {"200", "401"}, b \in ErrorBodies}

\* One exchange: the response and the seconds it takes.
Env(n) == [resp : Responses(n), delay : 0..MaxDelay]

\* The server grants a token only on a well-formed grant request.
GrantValid(req) == /\ req.path = TokenPath /\ req.verb = POST /\ req.enc = "form"
                   /\ req.params.client_id # "" /\ req.params.client_secret # ""
                   /\ \/ req.params.form = "login" /\ req.params.grant_type = "password" /\ req.params.username # ""
                      \/ req.params.form = "refresh" /\ req.params.grant_type = "refresh_token" /\ req.params.refresh_token # ""

\* The responses the server can give to a request: tokens come from the token
\* endpoint, on a valid grant; payloads come from the other endpoints, and from
\* the account endpoints only to a request that carries a bearer token.
Admissible(req, resp) == /\ resp.body.access_token # "" => GrantValid(req) /\ issued < MaxIssued
                         /\ resp.body.data # "" => req.path # TokenPath /\ (req.path \in AuthPaths => req.auth \notin {NoHeader, "Bearer "})

(***************************************************************************)
(* sling: Receive(successV, failureV) sends the request; a 2XX response is *)
(* JSON decoded into successV, any other response into failureV.           *)
(***************************************************************************)
TransportError == "dial tcp: connection refused"
DecodeError == "invalid character '<' looking for beginning of value"

\* json.Decode into the success value of the call: a TokenRes reads the code and
\* the token fields, the other results read the code and their payload.
DecodeSuccess(body, res) == IF res = "TokenRes" THEN SuccessRes(body.code, Token(body.token_type, body.access_token, body.refresh_token, body.expires_in, 0), "") ELSE SuccessRes(body.code, ZeroToken, body.data)

\* json.Decode into an ErrorRes.
DecodeFailure(body) == ErrorRes(body.code, body.message, body.errorType)

\* A body the decoder rejects yields the decoder's error, and the value keeps
\* the fields decoded before the error.
Receive(resp, res) == IF resp.net = "down" THEN [httpErr |-> TransportError, res |-> ZeroRes, errorRes |-> ZeroErrorRes]
                      ELSE IF resp.status = "200" THEN [httpErr |-> IF resp.json THEN Nil ELSE DecodeError, res |-> DecodeSuccess(resp.body, res), errorRes |-> ZeroErrorRes]
                      ELSE [httpErr |-> IF resp.json THEN Nil ELSE DecodeError, res |-> ZeroRes, errorRes |-> DecodeFailure(resp.body)]

(***************************************************************************)
(* The client.  An operation takes the client c, the time t at which it    *)
(* starts and the exchanges es the environment will answer its requests    *)
(* with, in order.  It yields the client as it leaves it, its return       *)
(* values, the exchanges it made (sent), the time at its return, the       *)
(* exchanges left over, and adm: "ok" when the server can give the answers, *)
(* "no" when it cannot, "more" when the call needs a further exchange.     *)
(***************************************************************************)
New(mode) == IF mode = SANDBOX \/ mode = PRODUCTION THEN [client |-> <<Client(mode, ZeroToken, ZeroCredentials)>>, err |-> Nil] ELSE [client |-> <<>>, err |-> "Invalid mode"]

NewWithToken(mode, tok) == IF mode = SANDBOX \/ mode = PRODUCTION THEN [client |-> <<Client(mode, tok, ZeroCredentials)>>, err |-> Nil] ELSE [client |-> <<>>, err |-> "Invalid mode"]

\* NewFromConfig keeping the token of the config and not its credentials.
NewFromConfigTokenOnly(mode, config) == IF mode = SANDBOX \/ mode = PRODUCTION THEN [client |-> <<Client(mode, config.Token, ZeroCredentials)>>, err |-> Nil] ELSE [client |-> <<>>, err |-> "Invalid mode"]

\* NewFromConfig taking the empty mode for production, as http() does.
NewFromConfigDefaultMode(mode, config) == IF mode = SANDBOX \/ mode = PRODUCTION \/ mode = "" THEN [client |-> <<Client(mode, config.Token, config.Credentials)>>, err |-> Nil] ELSE [client |-> <<>>, err |-> "Invalid mode"]

NewFromConfig(mode, config) == IF mode = SANDBOX \/ mode = PRODUCTION THEN [client |-> <<Client(mode, config.Token, config.Credentials)>>, err |-> Nil] ELSE [client |-> <<>>, err |-> "Invalid mode"]

\* http() using the production base URL in every mode.
httpProduction(c) == baseURL

\* c.http(): the base URL of the client's mode.
http(c) == IF c.Mode = SANDBOX THEN sandboxBaseURL ELSE baseURL

\* The HTTP verb and the body encoding callApi chooses for a method.
Verb(method) == IF method \in {POST, JSON_POST} THEN "POST" ELSE IF method = DELETE THEN "DELETE" ELSE "GET"

Encoding(method, params) == IF params = NoParams THEN "none" ELSE IF method = JSON_POST THEN "json" ELSE IF method = POST THEN "form" ELSE "query"

Outcome(c, err, res, sent, t, es, adm) == [c |-> c, err |-> err, res |-> res, sent |-> sent, t |-> t, es |-> es, adm |-> adm]

\* Evaluates v once and hands the value to F.
Bind(v, F(_)) == CHOOSE y \in {F(x) : x \in {v}} : TRUE

RECURSIVE callApi(_, _, _, _, _, _, _, _)

\* refreshToken taking the time before the request where the code takes it after.
refreshTokenCallTime(c, credentials, t, es) == Bind(callApi(POST, TokenPath, RefreshForm(credentials), c, FALSE, "TokenRes", t, es), LAMBDA r :
                                                 IF r.err # Nil THEN Outcome(r.c, r.err, ZeroToken, r.sent, r.t, r.es, r.adm)
                                                 ELSE Outcome(r.c, Nil, [r.res.Token EXCEPT !.ValidUntil = r.res.Token.ExpiresIn + t], r.sent, r.t, r.es, r.adm))

\* refreshToken(c, credentials): res is the Token it returns.
refreshToken(c, credentials, t, es) == Bind(callApi(POST, TokenPath, RefreshForm(credentials), c, FALSE, "TokenRes", t, es), LAMBDA r :
                                         IF r.err # Nil THEN Outcome(r.c, r.err, ZeroToken, r.sent, r.t, r.es, r.adm)
                                         ELSE Outcome(r.c, Nil, [r.res.Token EXCEPT !.ValidUntil = r.res.Token.ExpiresIn + r.t], r.sent, r.t, r.es, r.adm))

\* RefreshToken storing only the new access token.
RefreshTokenAccessOnly(c, t, es) == Bind(refreshToken(c, TokenCredentials(c.credentials, c.token.RefreshToken), t, es), LAMBDA r :
                                      Outcome(IF r.err = Nil THEN [c EXCEPT !.token.AccessToken = r.res.AccessToken] ELSE c, r.err, r.res, r.sent, r.t, r.es, r.adm))

\* RefreshToken storing the grant type of a refresh with the new token.
RefreshTokenSetsGrant(c, t, es) == Bind(refreshToken(c, TokenCredentials(c.credentials, c.token.RefreshToken), t, es), LAMBDA r :
                                     Outcome(IF r.err = Nil THEN [c EXCEPT !.token = r.res, !.credentials.GrantType = "refresh_token"] ELSE c, r.err, r.res, r.sent, r.t, r.es, r.adm))

\* c.RefreshToken(): res is the Token it returns.
RefreshToken(c, t, es) == Bind(refreshToken(c, TokenCredentials(c.credentials, c.token.RefreshToken), t, es), LAMBDA r :
                            Outcome(IF r.err = Nil THEN [c EXCEPT !.token = r.res] ELSE c, r.err, r.res, r.sent, r.t, r.es, r.adm))

\* checkToken refreshing without keeping the new token for the request.
checkTokenDiscardsRefresh(c, t, es) == IF c.token = ZeroToken THEN Outcome(c, "Missing auth token", ZeroRes, <<>>, t, es, "ok")
                                       ELSE IF t >= c.token.ValidUntil - Margin
                                            THEN Bind(RefreshToken(c, t, es), LAMBDA r : Outcome(c, r.err, ZeroRes, r.sent, r.t, r.es, r.adm))
                                            ELSE Outcome(c, Nil, ZeroRes, <<>>, t, es, "ok")

\* checkToken comparing with > where the code has >=.
checkTokenStrict(c, t, es) == IF c.token = ZeroToken THEN Outcome(c, "Missing auth token", ZeroRes, <<>>, t, es, "ok")
                              ELSE IF t > c.token.ValidUntil - Margin
                                   THEN Bind(RefreshToken(c, t, es), LAMBDA r : Outcome(r.c, r.err, ZeroRes, r.sent, r.t, r.es, r.adm))
                                   ELSE Outcome(c, Nil, ZeroRes, <<>>, t, es, "ok")

\* checkToken obtaining a token by a refresh when credentials are stored.
checkTokenUsesCredentials(c, t, es) == IF c.token = ZeroToken /\ c.credentials = ZeroCredentials THEN Outcome(c, "Missing auth token", ZeroRes, <<>>, t, es, "ok")
                                       ELSE IF t >= c.token.ValidUntil - Margin
                                            THEN Bind(RefreshToken(c, t, es), LAMBDA r : Outcome(r.c, r.err, ZeroRes, r.sent, r.t, r.es, r.adm))
                                            ELSE Outcome(c, Nil, ZeroRes, <<>>, t, es, "ok")

\* checkToken dropping the error of the refresh.
checkTokenIgnoresError(c, t, es) == IF c.token = ZeroToken THEN Outcome(c, "Missing auth token", ZeroRes, <<>>, t, es, "ok")
                                    ELSE IF t >= c.token.ValidUntil - Margin
                                         THEN Bind(RefreshToken(c, t, es), LAMBDA r : Outcome(r.c, Nil, ZeroRes, r.sent, r.t, r.es, r.adm))
                                         ELSE Outcome(c, Nil, ZeroRes, <<>>, t, es, "ok")

\* checkToken(c): refreshes the token if it expires.
checkToken(c, t, es) == IF c.token = ZeroToken THEN Outcome(c, "Missing auth token", ZeroRes, <<>>, t, es, "ok")
                        ELSE IF t >= c.token.ValidUntil - Margin
                             THEN Bind(RefreshToken(c, t, es), LAMBDA r : Outcome(r.c, r.err, ZeroRes, r.sent, r.t, r.es, r.adm))
                             ELSE Outcome(c, Nil, ZeroRes, <<>>, t, es, "ok")

\* callApi wrapping the error of the transport in an error of its own.
ErrorOfWrapped(rcv) == IF rcv.httpErr # Nil THEN "bitwire: " \o rcv.httpErr ELSE IF rcv.errorRes # ZeroErrorRes THEN rcv.errorRes.ErrorType \o ": " \o rcv.errorRes.Message ELSE Nil

\* The error callApi returns for what Receive yielded.
ErrorOf(rcv) == IF rcv.httpErr # Nil THEN rcv.httpErr ELSE IF rcv.errorRes # ZeroErrorRes THEN rcv.errorRes.ErrorType \o ": " \o rcv.errorRes.Message ELSE Nil

\* callApi dropping the stored token when the request ends with an error.
SendDropsToken(method, path, params, auth, res, chk) == LET req == Request(Verb(method), http(chk.c), path, IF auth THEN "Bearer " \o chk.c.token.AccessToken ELSE NoHeader, Encoding(method, params), params)
                                                            e == Head(chk.es)
                                                            at == chk.t + e.delay
                                                        IN Bind(Receive(e.resp, res), LAMBDA rcv :
                                                             Outcome(IF ErrorOf(rcv) # Nil THEN [chk.c EXCEPT !.token = ZeroToken] ELSE chk.c, ErrorOf(rcv), rcv.res, Append(chk.sent, [req |-> req, resp |-> e.resp, at |-> at]), at, Tail(chk.es), IF chk.adm = "ok" /\ Admissible(req, e.resp) THEN "ok" ELSE "no"))

\* The request of callApi proper, once the token check has passed with outcome
\* chk: Receive, then the classification of the response.
Send(method, path, params, auth, res, chk) == LET req == Request(Verb(method), http(chk.c), path, IF auth THEN "Bearer " \o chk.c.token.AccessToken ELSE NoHeader, Encoding(method, params), params)
                                                  e == Head(chk.es)
                                                  at == chk.t + e.delay
                                              IN Bind(Receive(e.resp, res), LAMBDA rcv :
                                                   Outcome(chk.c, ErrorOf(rcv), rcv.res, Append(chk.sent, [req |-> req, resp |-> e.resp, at |-> at]), at, Tail(chk.es), IF chk.adm = "ok" /\ Admissible(req, e.resp) THEN "ok" ELSE "no"))

\* callApi(method, path, params, c, auth, res): res names the type of the
\* success value; the outcome's res is the value decoded into it.
callApi(method, path, params, c, auth, res, t, es) == Bind(IF auth THEN checkToken(c, t, es) ELSE Outcome(c, Nil, ZeroRes, <<>>, t, es, "ok"), LAMBDA chk :
                                                        IF chk.err # Nil THEN chk
                                                        ELSE IF chk.es = <<>> THEN Outcome(chk.c, Nil, ZeroRes, chk.sent, chk.t, <<>>, IF chk.adm = "ok" THEN "more" ELSE "no")
                                                        ELSE Send(method, path, params, auth, res, chk))

\* getToken calling the API as an authenticated operation.
getTokenChecked(c, credentials, t, es) == Bind(callApi(POST, TokenPath, LoginForm(credentials), c, TRUE, "TokenRes", t, es), LAMBDA r :
                                            IF r.err # Nil THEN Outcome(r.c, r.err, ZeroToken, r.sent, r.t, r.es, r.adm)
                                            ELSE Outcome(r.c, Nil, [r.res.Token EXCEPT !.ValidUntil = r.res.Token.ExpiresIn + r.t], r.sent, r.t, r.es, r.adm))

\* getToken taking the time before the request where the code takes it after.
getTokenCallTime(c, credentials, t, es) == Bind(callApi(POST, TokenPath, LoginForm(credentials), c, FALSE, "TokenRes", t, es), LAMBDA r :
                                             IF r.err # Nil THEN Outcome(r.c, r.err, ZeroToken, r.sent, r.t, r.es, r.adm)
                                             ELSE Outcome(r.c, Nil, [r.res.Token EXCEPT !.ValidUntil = r.res.Token.ExpiresIn + t], r.sent, r.t, r.es, r.adm))

\* getToken(c, credentials): res is the Token it returns.
getToken(c, credentials, t, es) == Bind(callApi(POST, TokenPath, LoginForm(credentials), c, FALSE, "TokenRes", t, es), LAMBDA r :
                                     IF r.err # Nil THEN Outcome(r.c, r.err, ZeroToken, r.sent, r.t, r.es, r.adm)
                                     ELSE Outcome(r.c, Nil, [r.res.Token EXCEPT !.ValidUntil = r.res.Token.ExpiresIn + r.t], r.sent, r.t, r.es, r.adm))

\* Authenticate storing the credentials before it knows the outcome.
AuthenticateStoresCredentialsFirst(c, credentials, t, es) == Bind(getToken(c, credentials, t, es), LAMBDA r :
                                                               IF r.err # Nil THEN Outcome([r.c EXCEPT !.credentials = Credentials(credentials.Credentials.ClientId, credentials.Credentials.ClientSecret, "refresh_token")], r.err, ZeroToken, r.sent, r.t, r.es, r.adm)
                                                               ELSE Outcome([r.c EXCEPT !.credentials = Credentials(credentials.Credentials.ClientId, credentials.Credentials.ClientSecret, "refresh_token"), !.token = r.res], Nil, r.res, r.sent, r.t, r.es, r.adm))

\* Authenticate clearing the stored token when the token request fails.
AuthenticateClearsToken(c, credentials, t, es) == Bind(getToken(c, credentials, t, es), LAMBDA r :
                                                    IF r.err # Nil THEN Outcome([r.c EXCEPT !.token = ZeroToken], r.err, ZeroToken, r.sent, r.t, r.es, r.adm)
                                                    ELSE Outcome([r.c EXCEPT !.credentials = Credentials(credentials.Credentials.ClientId, credentials.Credentials.ClientSecret, "refresh_token"), !.token = r.res], Nil, r.res, r.sent, r.t, r.es, r.adm))

\* c.Authenticate(credentials): res is the Token it returns.
Authenticate(c, credentials, t, es) == Bind(getToken(c, credentials, t, es), LAMBDA r :
                                         IF r.err # Nil THEN Outcome(r.c, r.err, ZeroToken, r.sent, r.t, r.es, r.adm)
                                         ELSE Outcome([r.c EXCEPT !.credentials = Credentials(credentials.Credentials.ClientId, credentials.Credentials.ClientSecret, "refresh_token"), !.token = r.res], Nil, r.res, r.sent, r.t, r.es, r.adm))

\* An operation returning what was decoded, whatever the error.
ResultPartial(call) == Bind(call, LAMBDA r : Outcome(r.c, r.err, r.res.Data, r.sent, r.t, r.es, r.adm))

\* The result an operation returns beside its error: the payload of the
\* response, or the zero value of the result type when there is an error.
Result(call) == Bind(call, LAMBDA r : Outcome(r.c, r.err, IF r.err # Nil THEN "" ELSE r.res.Data, r.sent, r.t, r.es, r.adm))

GetAllRates(c, t, es) == Result(callApi(GET, "rates", NoParams, c, FALSE, "AllRatesRes", t, es))

GetFxRates(c, t, es) == Result(callApi(GET, "rates/fx", NoParams, c, FALSE, "FxRatesRes", t, es))

GetBtcRates(c, t, es) == Result(callApi(GET, "rates/btc", NoParams, c, FALSE, "BtcRatesRes", t, es))

\* GetBanks calling the API as an authenticated operation.
GetBanksAuth(c, t, es) == Result(callApi(GET, "banks", NoParams, c, TRUE, "BanksRes", t, es))

GetBanks(c, t, es) == Result(callApi(GET, "banks", NoParams, c, FALSE, "BanksRes", t, es))

GetRecipients(c, t, es) == Result(callApi(GET, "recipients", NoParams, c, TRUE, "RecipientsRes", t, es))

GetTransfers(c, t, es) == Result(callApi(GET, "transfers", NoParams, c, TRUE, "TransfersRes", t, es))

GetTransfer(c, id, t, es) == Result(callApi(GET, "transfers/" \o id, NoParams, c, TRUE, "TransferRes", t, es))

CreateTransfer(c, transfer, t, es) == Result(callApi(JSON_POST, "transfers", TransferJSON(transfer), c, TRUE, "TransferRes", t, es))

CancelTransfer(c, id, t, es) == Result(callApi(DELETE, "transfers/" \o id, NoParams, c, TRUE, "TransferRes", t, es))

GetLimits(c, t, es) == Result(callApi(GET, "users/limits", NoParams, c, TRUE, "LimitsRes", t, es))

(***************************************************************************)
(* The config file of the command line program (cli/bitwire.go): a Config  *)
(* is written as a JSON object by writeConfig and read back by readConfig. *)
(* A Go string is any sequence of bytes; "\\xff" stands for a string with  *)
(* a byte that is not valid UTF-8 and "\\ufffd" for the same string with   *)
(* the Unicode replacement character in its place.                         *)
(***************************************************************************)
\* Config{}
ZeroConfig == Config(ZeroCredentials, ZeroToken)

\* encoding/json writes a string coerced to valid UTF-8: every invalid byte
\* becomes the replacement character; quotes, <, > and & are escaped and read
\* back as themselves.
ToValidUTF8(s) == IF s = "\\xff" THEN "\\ufffd" ELSE s

\* json.MarshalIndent(config): the embedded Credentials give the top-level
\* members client_id, client_secret and grant_type, the Token the member token.
formatJson(config) == [client_id |-> ToValidUTF8(config.Credentials.ClientId), client_secret |-> ToValidUTF8(config.Credentials.ClientSecret), grant_type |-> ToValidUTF8(config.Credentials.GrantType),
                       token |-> [token_type |-> ToValidUTF8(config.Token.TokenType), access_token |-> ToValidUTF8(config.Token.AccessToken), refresh_token |-> ToValidUTF8(config.Token.RefreshToken), expires_in |-> config.Token.ExpiresIn, valid_until |-> config.Token.ValidUntil]]

\* json.Unmarshal(data, &config) on a JSON object of a config.
Unmarshal(doc) == Config(Credentials(doc.client_id, doc.client_secret, doc.grant_type), Token(doc.token.token_type, doc.token.access_token, doc.token.refresh_token, doc.token.expires_in, doc.token.valid_until))

\* The content of a config file: whether it exists, whether it is JSON, and
\* the JSON object it holds.
FileContent(exists, json, doc) == [exists |-> exists, json |-> json, doc |-> doc]

NoFile == FileContent(FALSE, FALSE, formatJson(ZeroConfig))

\* A file that is not JSON.
Garbage == FileContent(TRUE, FALSE, formatJson(ZeroConfig))

\* ~/.bitwire/production.json and ~/.bitwire/sandbox.json
NoFiles == [mode \in {PRODUCTION, SANDBOX} |-> NoFile]

\* writeConfig(config, mode): the files after it has truncated and written
\* the file of the mode.
writeConfig(config, mode, files) == [files EXCEPT ![mode] = FileContent(TRUE, TRUE, formatJson(config))]

\* readConfig(mode): the config and the error it returns.
readConfig(mode, files) == IF ~files[mode].exists THEN [config |-> ZeroConfig, err |-> "open: no such file or directory"]
                           ELSE IF ~files[mode].json THEN [config |-> ZeroConfig, err |-> "unexpected end of JSON input"]
                           ELSE [config |-> Unmarshal(files[mode].doc), err |-> Nil]

(***************************************************************************)
(* The state machine: one client, the clock, the server's grant counter,   *)
(* and the record of the latest call (its requests, responses and return   *)
(* values).  Three history variables keep what the client's life has been: *)
(* the mode given to its constructor (builtMode), whether a password-grant *)
(* Authenticate has succeeded on it (authenticated), and the token of its  *)
(* latest token request that ended without an error (granted).             *)
(***************************************************************************)
\* The modes a caller may pass to a constructor.
ModeInputs == {SANDBOX, PRODUCTION, "test", ""}

\* Tokens of an earlier session: one within the margin at StartTime, one not.
OldTokens == {Token("Bearer", "at0", "rt0", Margin + 1, vu) : vu \in {StartTime + Margin, StartTime + Margin + 2}}

TokenInputs == {ZeroToken} \cup OldTokens

\* Configs: with the grant type the CLI writes, with client id and secret
\* alone, and without credentials.
ConfigInputs == {Config(cr, tk) : cr \in {Credentials("cid0", "sec0", "refresh_token"), Credentials("cid0", "sec0", ""), ZeroCredentials}, tk \in TokenInputs}

LoginInputs == {LoginCredentials(Credentials("cid1", "sec1", "password"), "user", "secret")}

TransferInputs == {[amount |-> "1000", currency |-> "KRW", recipient_id |-> 1, memo |-> "", type |-> "btc_to_bank"]}

IdInputs == {"t1"}

\* The record of a call: the operation, the client and the time at its start,
\* the exchanges it made, and the error and the result it returned.
Last(op, pre, t0, sent, err, tok, data) == [op |-> op, pre |-> pre, t0 |-> t0, sent |-> sent, err |-> err, tok |-> tok, data |-> data]

NoClient == Client("", ZeroToken, ZeroCredentials)

\* No call is under way: the caller has taken the results of the latest call.
Quiet == Last("", NoClient, 0, <<>>, Nil, ZeroToken, "")

Constructors == {"New", "NewWithToken", "NewFromConfig"}

Ready == last.op \in Constructors \cup {""}

\* The state after the constructor op, called with the mode, token and
\* credentials of args, has returned r.
Constructed(op, args, r) == /\ client = r.client
                            /\ builtMode = args.Mode
                            /\ last = Last(op, args, StartTime, <<>>, r.err, ZeroToken, "")

\* The values of the variables of the parts that do not take part in a
\* specification.
CliIdle == [pc |-> "idle"]
NoRoundTrip == [pc |-> "idle"]
NoProcs == <<>>

Init == /\ now = StartTime
        /\ issued = 0
        /\ authenticated = FALSE
        /\ granted = ZeroToken
        /\ file = NoFiles /\ cli = CliIdle /\ procs = NoProcs /\ roundtrip = NoRoundTrip
        /\ \E mode \in ModeInputs : \/ Constructed("New", Client(mode, ZeroToken, ZeroCredentials), New(mode))
                                    \/ \E tk \in TokenInputs : Constructed("NewWithToken", Client(mode, tk, ZeroCredentials), NewWithToken(mode, tk))
                                    \/ \E cf \in ConfigInputs : Constructed("NewFromConfig", Client(mode, cf.Token, cf.Credentials), NewFromConfig(mode, cf))

\* The error a token request ends with, given its response.
TokenError(x) == ErrorOf(Receive(x.resp, "TokenRes"))

\* The token a token response carries, stamped at its receipt.
TokenOf(x) == Token(x.resp.body.token_type, x.resp.body.access_token, x.resp.body.refresh_token, x.resp.body.expires_in, x.at + x.resp.body.expires_in)

\* The token requests of a call that ended without an error.
TokensGranted(sent) == {i \in 1..Len(sent) : sent[i].req.path = TokenPath /\ TokenError(sent[i]) = Nil}

\* The grants among the responses of a call.
Grants(sent) == Cardinality({i \in 1..Len(sent) : sent[i].resp.body.access_token # ""})

\* The step of the machine that is the call F of operation op: the environment
\* answers each request the call makes.
Call(op, F(_), returnsToken) == /\ Ready
                                /\ client # <<>>
                                /\ \E e1 \in Env(issued) : \E first \in {F(<<e1>>)} : \E r \in (IF first.adm = "more" THEN {F(<<e1, e2>>) : e2 \in Env(issued)} ELSE {first}) :
                                         /\ r.adm = "ok"
                                         /\ r.t <= MaxNow
                                         /\ client' = <<r.c>>
                                         /\ now' = r.t
                                         /\ issued' = issued + Grants(r.sent)
                                         /\ builtMode' = builtMode
                                         /\ UNCHANGED <<cliVars, concVars, jsonVars>>
                                         /\ authenticated' = (authenticated \/ (op = "Authenticate" /\ r.err = Nil /\ r.sent[1].req.params.grant_type = "password"))
                                         /\ granted' = IF TokensGranted(r.sent) = {} THEN granted ELSE TokenOf(r.sent[CHOOSE i \in TokensGranted(r.sent) : \A j \in TokensGranted(r.sent) : j <= i])
                                         /\ last' = IF returnsToken THEN Last(op, client[1], now, r.sent, r.err, r.res, "") ELSE Last(op, client[1], now, r.sent, r.err, ZeroToken, r.res)

CallAuthenticate == \E l \in LoginInputs : Call("Authenticate", LAMBDA es : Authenticate(client[1], l, now, es), TRUE)

CallRefreshToken == Call("RefreshToken", LAMBDA es : RefreshToken(client[1], now, es), TRUE)

CallGetAllRates == Call("GetAllRates", LAMBDA es : GetAllRates(client[1], now, es), FALSE)

CallGetFxRates == Call("GetFxRates", LAMBDA es : GetFxRates(client[1], now, es), FALSE)

CallGetBtcRates == Call("GetBtcRates", LAMBDA es : GetBtcRates(client[1], now, es), FALSE)

CallGetBanks == Call("GetBanks", LAMBDA es : GetBanks(client[1], now, es), FALSE)

CallGetRecipients == Call("GetRecipients", LAMBDA es : GetRecipients(client[1], now, es), FALSE)

CallGetTransfers == Call("GetTransfers", LAMBDA es : GetTransfers(client[1], now, es), FALSE)

CallGetTransfer == \E id \in IdInputs : Call("GetTransfer", LAMBDA es : GetTransfer(client[1], id, now, es), FALSE)

CallCreateTransfer == \E tr \in TransferInputs : Call("CreateTransfer", LAMBDA es : CreateTransfer(client[1], tr, now, es), FALSE)

CallCancelTransfer == \E id \in IdInputs : Call("CancelTransfer", LAMBDA es : CancelTransfer(client[1], id, now, es), FALSE)

CallGetLimits == Call("GetLimits", LAMBDA es : GetLimits(client[1], now, es), FALSE)

\* The caller takes the results of the call.
Return == /\ ~Ready
          /\ last' = Quiet
          /\ UNCHANGED <<client, now, issued, builtMode, authenticated, granted, cliVars, concVars, jsonVars>>

\* A second passes between two calls.
Tick == /\ Ready
        /\ now < MaxNow
        /\ now' = now + 1
        /\ last' = Quiet
        /\ UNCHANGED <<client, issued, builtMode, authenticated, granted, cliVars, concVars, jsonVars>>

Next == \/ CallAuthenticate
        \/ CallRefreshToken
        \/ CallGetAllRates
        \/ CallGetFxRates
        \/ CallGetBtcRates
        \/ CallGetBanks
        \/ CallGetRecipients
        \/ CallGetTransfers
        \/ CallGetTransfer
        \/ CallCreateTransfer
        \/ CallCancelTransfer
        \/ CallGetLimits
        \/ Return
        \/ Tick

Spec == Init /\ [][Next]_vars

(***************************************************************************)
(* The command line program (cli/bitwire.go).  A run of the program is     *)
(* app.Before, the action of the command, and app.After; the config files  *)
(* outlive the run.  The file system does what it is asked.                *)
(***************************************************************************)
authCommands == {"transfers", "transfer", "limits", "recipients", "tr", "create", "cancel", "list", "show"}

\* newClient(cmd): the client and the error it returns.
newClient(cmd, mode, conf, confErr) == IF cmd \in authCommands
                                       THEN IF conf # ZeroConfig THEN NewFromConfig(mode, conf)
                                            ELSE [client |-> <<>>, err |-> IF confErr # Nil THEN confErr ELSE "Configuration error"]
                                       ELSE New(mode)

\* config(mode): the config and the login made of what the user types.
config(username, password, clientId, clientSecret) == [conf |-> Config(Credentials(clientId, clientSecret, "refresh_token"), ZeroToken), login |-> LoginCredentials(Credentials(clientId, clientSecret, "password"), username, password)]

\* app.After writing the config whenever the client holds an access token.
AfterWritesAlways(c, conf, mode, files) == IF c # <<>> /\ c[1].token.AccessToken # ""
                                           THEN [conf |-> Config(Credentials(conf.Credentials.ClientId, conf.Credentials.ClientSecret, conf.Credentials.GrantType), c[1].token), files |-> writeConfig(Config(Credentials(conf.Credentials.ClientId, conf.Credentials.ClientSecret, conf.Credentials.GrantType), c[1].token), mode, files), wrote |-> TRUE]
                                           ELSE [conf |-> conf, files |-> files, wrote |-> FALSE]

\* app.After: the config, the files and whether it wrote the file, given the
\* client c (<<>> for nil) and the config read by app.Before.
After(c, conf, mode, files) == IF c # <<>> /\ c[1].token.AccessToken # "" /\ conf.Token.AccessToken # c[1].token.AccessToken
                               THEN [conf |-> Config(Credentials(conf.Credentials.ClientId, conf.Credentials.ClientSecret, conf.Credentials.GrantType), c[1].token), files |-> writeConfig(Config(Credentials(conf.Credentials.ClientId, conf.Credentials.ClientSecret, conf.Credentials.GrantType), c[1].token), mode, files), wrote |-> TRUE]
                               ELSE [conf |-> conf, files |-> files, wrote |-> FALSE]

\* strconv.Atoi on a string given as the sequence of its characters: an
\* optional sign and decimal digits.
Digits == <<"0", "1", "2", "3", "4", "5", "6", "7", "8", "9">>

DigitValue(ch) == (CHOOSE i \in 1..Len(Digits) : Digits[i] = ch) - 1

RECURSIVE DecimalValue(_)
DecimalValue(s) == IF s = <<>> THEN 0 ELSE DecimalValue(SubSeq(s, 1, Len(s) - 1)) * Len(Digits) + DigitValue(s[Len(s)])

Atoi(s) == LET digits == IF s # <<>> /\ s[1] \in {"+", "-"} THEN Tail(s) ELSE s
           IN IF digits = <<>> \/ \E i \in 1..Len(digits) : \A j \in 1..Len(Digits) : Digits[j] # digits[i] THEN [n |-> 0, err |-> "invalid syntax"]
              ELSE [n |-> IF s[1] = "-" THEN 0 - DecimalValue(digits) ELSE DecimalValue(digits), err |-> Nil]

\* The exchanges of a run of the program: the responses of the server.
CliEnv == [resp : Responses(issued), delay : {0}]

\* What the user types at the prompts of the config command.
EntryInputs == {[username |-> "user", password |-> "secret", clientId |-> "cid1", clientSecret |-> "sec1"]}

\* Command line arguments, as sequences of characters.
ArgInputs == {<<"7">>, <<"5", "0">>, <<"x">>}

CreateArgInputs == {<<>>} \cup {<<a>> : a \in ArgInputs} \cup {<<a, b>> : a \in ArgInputs, b \in ArgInputs}

Commands == {"config", "rates", "banks", "recipients", "list", "show", "create", "cancel", "limits"}

\* The config files before the first run: none, one that is not JSON, and one
\* written by an earlier run.
FileInputs == {NoFile, Garbage} \cup {FileContent(TRUE, TRUE, formatJson(Config(Credentials("cid0", "sec0", "refresh_token"), tk))) : tk \in OldTokens}

\* The state of a run: where it is (pc), the mode and the command with its
\* arguments, conf and confErr of main, the error the run exits with, and,
\* for the properties, the config as app.Before read it, what the user typed,
\* the files when app.After began and whether app.After wrote the file.
CliRun(pc, mode, cmd, args, conf, confErr, exit, loaded, entered, filesAtAfter, wrote) == [pc |-> pc, mode |-> mode, cmd |-> cmd, args |-> args, conf |-> conf, confErr |-> confErr, exit |-> exit, loaded |-> loaded, entered |-> entered, filesAtAfter |-> filesAtAfter, wrote |-> wrote]

NoEntry == [username |-> "", password |-> "", clientId |-> "", clientSecret |-> ""]

CliInit == /\ \E mode \in {PRODUCTION, SANDBOX}, f \in FileInputs :
                /\ file = [NoFiles EXCEPT ![mode] = f]
                /\ cli = CliRun("start", mode, "", <<>>, ZeroConfig, Nil, Nil, ZeroConfig, NoEntry, NoFiles, FALSE)
           /\ client = <<>> /\ now = StartTime /\ issued = 0 /\ last = Quiet /\ builtMode = "" /\ authenticated = FALSE /\ granted = ZeroToken
           /\ procs = NoProcs /\ roundtrip = NoRoundTrip

\* The program starts with a command and its arguments; app.Before reads the
\* config file of the mode.
Before == /\ cli.pc \in {"start", "done"}
          /\ \E cmd \in Commands : \E args \in (IF cmd = "create" THEN CreateArgInputs ELSE IF cmd \in {"show", "cancel"} THEN {<<id>> : id \in IdInputs} ELSE {<<>>}) :
               cli' = CliRun("action", cli.mode, cmd, args, readConfig(cli.mode, file).config, readConfig(cli.mode, file).err, Nil, readConfig(cli.mode, file).config, NoEntry, NoFiles, FALSE)
          /\ client' = <<>>
          /\ last' = Quiet
          /\ UNCHANGED <<now, issued, builtMode, authenticated, granted, file, procs, roundtrip>>

\* The action of a command ends without a call of the client.
NoCall(exit) == /\ cli' = [cli EXCEPT !.pc = "after", !.exit = exit]
                /\ UNCHANGED <<client, now, issued, last, builtMode, authenticated, granted, file, procs, roundtrip>>

\* The action of a command calls the operation op of its client c: F(c, es)
\* is the call, answered with the exchanges es.
ClientCall(op, c, F(_, _)) == \E e1 \in CliEnv : \E first \in {F(c, <<e1>>)} : \E r \in (IF first.adm = "more" THEN {F(c, <<e1, e2>>) : e2 \in CliEnv} ELSE {first}) :
                                 /\ r.adm = "ok"
                                 /\ r.t <= MaxNow
                                 /\ client' = <<r.c>>
                                 /\ now' = r.t
                                 /\ issued' = issued + Grants(r.sent)
                                 /\ last' = Last(op, c, now, r.sent, r.err, ZeroToken, r.res)
                                 /\ cli' = [cli EXCEPT !.pc = "after", !.exit = r.err]
                                 /\ UNCHANGED <<builtMode, authenticated, granted, file, procs, roundtrip>>

\* The action of a command that calls one operation of the client.
Command(cmd, op, F(_, _)) == /\ cli.pc = "action"
                             /\ cli.cmd = cmd
                             /\ IF newClient(cmd, cli.mode, cli.conf, cli.confErr).err # Nil THEN NoCall(newClient(cmd, cli.mode, cli.conf, cli.confErr).err)
                                ELSE ClientCall(op, newClient(cmd, cli.mode, cli.conf, cli.confErr).client[1], F)

\* config: New, the prompts, Authenticate, and writeConfig of the config made
\* of what the user typed and the token.
ConfigCommand == /\ cli.pc = "action"
                 /\ cli.cmd = "config"
                 /\ \E entry \in EntryInputs : \E e1 \in CliEnv : \E r \in {Authenticate(newClient("config", cli.mode, cli.conf, cli.confErr).client[1], config(entry.username, entry.password, entry.clientId, entry.clientSecret).login, now, <<e1>>)} :
                      /\ r.adm = "ok"
                      /\ r.t <= MaxNow
                      /\ client' = <<r.c>>
                      /\ now' = r.t
                      /\ issued' = issued + Grants(r.sent)
                      /\ last' = Last("Authenticate", newClient("config", cli.mode, cli.conf, cli.confErr).client[1], now, r.sent, r.err, r.res, "")
                      /\ cli' = [cli EXCEPT !.pc = "after", !.exit = r.err, !.entered = entry]
                      /\ file' = IF r.err # Nil THEN file ELSE writeConfig([config(entry.username, entry.password, entry.clientId, entry.clientSecret).conf EXCEPT !.Token = r.res], cli.mode, file)
                      /\ UNCHANGED <<builtMode, authenticated, granted, procs, roundtrip>>

RatesCommand == Command("rates", "GetAllRates", LAMBDA c, es : GetAllRates(c, now, es))

BanksCommand == Command("banks", "GetBanks", LAMBDA c, es : GetBanks(c, now, es))

RecipientsCommand == Command("recipients", "GetRecipients", LAMBDA c, es : GetRecipients(c, now, es))

TransferListCommand == Command("list", "GetTransfers", LAMBDA c, es : GetTransfers(c, now, es))

TransferShowCommand == Command("show", "GetTransfer", LAMBDA c, es : GetTransfer(c, cli.args[1], now, es))

\* transfer create: amount := args.Get(0), recId := Atoi(args.Get(1)).
TransferCreateCommand == /\ cli.pc = "action"
                         /\ cli.cmd = "create"
                         /\ IF newClient("create", cli.mode, cli.conf, cli.confErr).err # Nil THEN NoCall(newClient("create", cli.mode, cli.conf, cli.confErr).err)
                            ELSE IF Len(cli.args) < 2 THEN NoCall("Missing argument\nUsage: transfer create recipient_id amount")
                            ELSE IF Atoi(cli.args[2]).err # Nil THEN NoCall("Invalid recipient id value")
                            ELSE ClientCall("CreateTransfer", newClient("create", cli.mode, cli.conf, cli.confErr).client[1], LAMBDA c, es : CreateTransfer(c, [amount |-> cli.args[1], currency |-> "KRW", recipient_id |-> Atoi(cli.args[2]).n, memo |-> "", type |-> "btc_to_bank"], now, es))

TransferCancelCommand == Command("cancel", "CancelTransfer", LAMBDA c, es : CancelTransfer(c, cli.args[1], now, es))

LimitsCommand == Command("limits", "GetLimits", LAMBDA c, es : GetLimits(c, now, es))

\* app.After, and the end of the run.
AfterHook == /\ cli.pc = "after"
             /\ cli' = [cli EXCEPT !.pc = "done", !.conf = After(client, cli.conf, cli.mode, file).conf, !.filesAtAfter = file, !.wrote = After(client, cli.conf, cli.mode, file).wrote]
             /\ file' = After(client, cli.conf, cli.mode, file).files
             /\ last' = Quiet
             /\ UNCHANGED <<client, now, issued, builtMode, authenticated, granted, procs, roundtrip>>

\* A second passes between two runs.
CliTick == /\ cli.pc \in {"start", "done"}
           /\ now < MaxNow
           /\ now' = now + 1
           /\ UNCHANGED <<client, issued, last, builtMode, authenticated, granted, file, cli, procs, roundtrip>>

CliNext == \/ Before
           \/ ConfigCommand
           \/ RatesCommand
           \/ BanksCommand
           \/ RecipientsCommand
           \/ TransferListCommand
           \/ TransferShowCommand
           \/ TransferCreateCommand
           \/ TransferCancelCommand
           \/ LimitsCommand
           \/ AfterHook
           \/ CliTick

CliSpec == CliInit /\ [][CliNext]_vars

(***************************************************************************)
(* The round trip of a config through its file: writeConfig, then          *)
(* readConfig, for configs drawn from JsonConfigInputs.                    *)
(***************************************************************************)
\* Go strings: empty, plain, with characters JSON escapes, with an invalid byte.
GoStrings == {"", "cid0", "<\"&>", "\\xff"}

JsonTokenInputs == {ZeroToken, Token("Bearer", "at0", "rt0", Margin + 1, StartTime + Margin), Token("Bearer", "\\xff", "rt0", -1, 2147483647)}

JsonConfigInputs == {Config(Credentials(id, secret, grant), tk) : id \in GoStrings, secret \in GoStrings, grant \in {"", "refresh_token"}, tk \in JsonTokenInputs}

RoundTrip(pc, cf, mode, read, err) == [pc |-> pc, config |-> cf, mode |-> mode, read |-> read, err |-> err]

JsonInit == /\ \E cf \in JsonConfigInputs, mode \in {PRODUCTION, SANDBOX} : roundtrip = RoundTrip("config", cf, mode, ZeroConfig, Nil)
            /\ file = NoFiles
            /\ client = <<>> /\ now = StartTime /\ issued = 0 /\ last = Quiet /\ builtMode = "" /\ authenticated = FALSE /\ granted = ZeroToken
            /\ cli = CliIdle /\ procs = NoProcs

\* writeConfig(config, mode)
WriteConfig == /\ roundtrip.pc = "config"
               /\ file' = writeConfig(roundtrip.config, roundtrip.mode, file)
               /\ roundtrip' = [roundtrip EXCEPT !.pc = "written"]
               /\ UNCHANGED <<libVars, cli, procs>>

\* readConfig(mode)
ReadConfig == /\ roundtrip.pc = "written"
              /\ roundtrip' = [roundtrip EXCEPT !.pc = "read", !.read = readConfig(roundtrip.mode, file).config, !.err = readConfig(roundtrip.mode, file).err]
              /\ UNCHANGED <<libVars, file, cli, procs>>

JsonNext == WriteConfig \/ ReadConfig

JsonSpec == JsonInit /\ [][JsonNext]_vars

(***************************************************************************)
(* Two goroutines on one Client.  The client has no lock: each goroutine   *)
(* runs callApi statement by statement, and the statements of the two      *)
(* interleave.  c.token = token is not atomic: the fields are written one  *)
(* after the other, so that a read of the other goroutine sees the old     *)
(* token, the new one, or a token of which only a part is the new one.     *)
(***************************************************************************)
Goroutines == {1, 2}

Other(g) == 3 - g

\* The fields of Token, in the order of the struct.
TokenFields == <<"TokenType", "AccessToken", "RefreshToken", "ExpiresIn", "ValidUntil">>

\* The operation each goroutine calls, by its path: GetRecipients and
\* GetTransfers.
ConcPaths == <<"recipients", "transfers">>

\* The type of the success value of the operation of a path.
ConcRes(path) == IF path = "recipients" THEN "RecipientsRes" ELSE "TransfersRes"

\* A goroutine: where it is in callApi (pc), the path of its operation,
\* whether the stored token was within the margin when it began, and its
\* locals: creds of RefreshToken, token of refreshToken and RefreshToken with
\* the number of fields of c.token still to write, the Authorization header of its
\* request and the error it returns.
Goroutine(pc, path, within, creds, token, left, auth, err) == [pc |-> pc, path |-> path, within |-> within, creds |-> creds, token |-> token, left |-> left, auth |-> auth, err |-> err]

Idle == Goroutine("idle", "", FALSE, TokenCredentials(ZeroCredentials, ""), ZeroToken, 0, NoHeader, Nil)

\* The goroutines, and of the requests they sent: the number of refresh
\* requests, the refresh tokens the server has granted a refresh to, whether
\* a refresh request carried one of those, and whether the second operation
\* began before the first returned.
Procs(g, refreshes, consumed, reused, overlap) == [g |-> g, refreshes |-> refreshes, consumed |-> consumed, reused |-> reused, overlap |-> overlap]

ConcInit == /\ \E mode \in {PRODUCTION}, tk \in OldTokens : client = NewFromConfig(mode, Config(Credentials("cid0", "sec0", "refresh_token"), tk)).client
            /\ now = StartTime /\ issued = 0 /\ last = Quiet /\ builtMode = "" /\ authenticated = FALSE /\ granted = ZeroToken
            /\ procs = Procs([g \in Goroutines |-> Idle], 0, {}, FALSE, FALSE)
            /\ file = NoFiles /\ cli = CliIdle /\ roundtrip = NoRoundTrip

\* A goroutine calls an operation.
ConcCall == \E g \in Goroutines : \E path \in {ConcPaths[g]} :
              /\ procs.g[g].pc = "idle"
              /\ procs' = [procs EXCEPT !.g[g] = [@ EXCEPT !.pc = "check", !.path = path, !.within = now >= client[1].token.ValidUntil - Margin], !.overlap = @ \/ procs.g[Other(g)].pc \notin {"idle", "done"}]
              /\ UNCHANGED <<libVars, cliVars, jsonVars>>

\* checkToken: if c.token == (Token{}).
ConcCheckZero == \E g \in Goroutines :
                   /\ procs.g[g].pc = "check"
                   /\ procs' = [procs EXCEPT !.g[g] = IF client[1].token = ZeroToken THEN [@ EXCEPT !.pc = "done", !.err = "Missing auth token"] ELSE [@ EXCEPT !.pc = "expiry"]]
                   /\ UNCHANGED <<libVars, cliVars, jsonVars>>

\* checkToken: now := time.Now().Unix(); if now >= c.token.ValidUntil-30.
ConcCheckExpiry == \E g \in Goroutines :
                     /\ procs.g[g].pc = "expiry"
                     /\ procs' = [procs EXCEPT !.g[g].pc = IF now >= client[1].token.ValidUntil - Margin THEN "creds" ELSE "header"]
                     /\ UNCHANGED <<libVars, cliVars, jsonVars>>

\* RefreshToken: creds := TokenCredentials{c.credentials, c.token.RefreshToken}.
ConcCredentials == \E g \in Goroutines :
                     /\ procs.g[g].pc = "creds"
                     /\ procs' = [procs EXCEPT !.g[g] = [@ EXCEPT !.pc = "refresh", !.creds = TokenCredentials(client[1].credentials, client[1].token.RefreshToken)]]
                     /\ UNCHANGED <<libVars, cliVars, jsonVars>>

\* refreshToken: callApi(POST, "oauth/tokens", credentials, c, false,
\* tokenRes), the request and its response.
ConcRefresh == \E g \in Goroutines : \E resp \in Responses(issued) : \E req \in {Request(Verb(POST), http(client[1]), TokenPath, NoHeader, Encoding(POST, RefreshForm(procs.g[g].creds)), RefreshForm(procs.g[g].creds))} : \E rcv \in {Receive(resp, "TokenRes")} :
                 /\ procs.g[g].pc = "refresh"
                 /\ Admissible(req, resp)
                 /\ procs' = [procs EXCEPT !.g[g] = IF ErrorOf(rcv) # Nil THEN [@ EXCEPT !.pc = "done", !.err = ErrorOf(rcv)] ELSE [@ EXCEPT !.pc = "stamp", !.token = rcv.res.Token],
                                           !.refreshes = @ + 1,
                                           !.reused = @ \/ procs.g[g].creds.RefreshToken \in procs.consumed,
                                           !.consumed = IF resp.body.access_token # "" THEN @ \cup {procs.g[g].creds.RefreshToken} ELSE @]
                 /\ issued' = issued + (IF resp.body.access_token # "" THEN 1 ELSE 0)
                 /\ UNCHANGED <<client, now, last, builtMode, authenticated, granted, cliVars, jsonVars>>

\* refreshToken: token.ValidUntil = int64(token.ExpiresIn) + time.Now().Unix().
ConcStamp == \E g \in Goroutines :
               /\ procs.g[g].pc = "stamp"
               /\ procs' = [procs EXCEPT !.g[g] = [@ EXCEPT !.pc = "store", !.token = [@ EXCEPT !.ValidUntil = procs.g[g].token.ExpiresIn + now], !.left = Len(TokenFields)]]
               /\ UNCHANGED <<libVars, cliVars, jsonVars>>

\* RefreshToken: c.token = token, one field at a time.
ConcStore == \E g \in Goroutines : \E f \in {TokenFields[i] : i \in {Len(TokenFields) + 1 - procs.g[g].left} \cap DOMAIN TokenFields} :
               /\ procs.g[g].pc = "store"
               /\ client' = <<[client[1] EXCEPT !.token[f] = procs.g[g].token[f]]>>
               /\ procs' = [procs EXCEPT !.g[g] = [@ EXCEPT !.pc = IF procs.g[g].left = 1 THEN "header" ELSE "store", !.left = @ - 1]]
               /\ UNCHANGED <<now, issued, last, builtMode, authenticated, granted, cliVars, jsonVars>>

\* callApi: req.Set("Authorization", "Bearer "+c.token.AccessToken).
ConcHeader == \E g \in Goroutines :
                /\ procs.g[g].pc = "header"
                /\ procs' = [procs EXCEPT !.g[g] = [@ EXCEPT !.pc = "send", !.auth = "Bearer " \o client[1].token.AccessToken, !.creds = Idle.creds, !.token = ZeroToken]]
                /\ UNCHANGED <<libVars, cliVars, jsonVars>>

\* callApi: req.Receive(res, errorRes) and the error returned.
ConcReceive == \E g \in Goroutines : \E resp \in Responses(issued) : \E req \in {Request(Verb(GET), http(client[1]), procs.g[g].path, procs.g[g].auth, Encoding(GET, NoParams), NoParams)} :
                 /\ procs.g[g].pc = "send"
                 /\ Admissible(req, resp)
                 /\ procs' = [procs EXCEPT !.g[g] = [@ EXCEPT !.pc = "done", !.err = ErrorOf(Receive(resp, ConcRes(procs.g[g].path)))]]
                 /\ UNCHANGED <<libVars, cliVars, jsonVars>>

\* A second passes.
ConcTick == /\ now < MaxNow
            /\ now' = now + 1
            /\ UNCHANGED <<client, issued, last, builtMode, authenticated, granted, procs, cliVars, jsonVars>>

ConcNext == \/ ConcCall
            \/ ConcCheckZero
            \/ ConcCheckExpiry
            \/ ConcCredentials
            \/ ConcRefresh
            \/ ConcStamp
            \/ ConcStore
            \/ ConcHeader
            \/ ConcReceive
            \/ ConcTick

ConcSpec == ConcInit /\ [][ConcNext]_vars

(***************************************************************************)
(* Vocabulary of the properties.                                           *)
(***************************************************************************)
AuthOps == {"GetRecipients", "GetTransfers", "GetTransfer", "CreateTransfer", "CancelTransfer", "GetLimits"}

UnauthOps == {"GetAllRates", "GetFxRates", "GetBtcRates", "GetBanks"}

\* The positions of the refresh requests among the exchanges of a call.
Refreshes(sent) == {i \in 1..Len(sent) : IsRefreshRequest(sent[i].req)}

\* The positions of the requests to the endpoints other than oauth/tokens.
OwnRequests(sent) == {i \in 1..Len(sent) : sent[i].req.path # TokenPath}

\* The latest call refreshed the token before its own request.
RefreshedFirst == Len(last.sent) >= 1 /\ IsRefreshRequest(last.sent[1].req)

(***************************************************************************)
(* C1: an authenticated operation on a non-zero token sends a refresh      *)
(* request if and only if now >= valid_until - 30 at the pre-call check;   *)
(* then it sends exactly one, before its own request; otherwise none.      *)
(***************************************************************************)
C1_RefreshIffExpiring == last.op \in AuthOps /\ last.pre.token # ZeroToken =>
                            /\ last.t0 >= last.pre.token.ValidUntil - 30 => Refreshes(last.sent) = {1} /\ OwnRequests(last.sent) \subseteq {2}
                            /\ last.t0 < last.pre.token.ValidUntil - 30 => Refreshes(last.sent) = {} /\ OwnRequests(last.sent) = {1}

\* An authenticated call right at the margin: one refresh, then its own request.
C1_Witness == /\ last.op \in AuthOps
              /\ last.t0 = last.pre.token.ValidUntil - 30
              /\ Len(last.sent) = 2
              /\ Refreshes(last.sent) = {1}
              /\ OwnRequests(last.sent) = {2}

(***************************************************************************)
(* C2: an authenticated operation on a zero token returns "Missing auth    *)
(* token" and sends no request, with or without stored credentials, and    *)
(* leaves token and credentials unchanged.                                 *)
(***************************************************************************)
C2_ZeroTokenNoRequest == last.op \in AuthOps /\ last.pre.token = ZeroToken =>
                            /\ last.err = "Missing auth token"
                            /\ last.sent = <<>>
                            /\ client[1].token = last.pre.token
                            /\ client[1].credentials = last.pre.credentials

\* An authenticated call on a client with credentials and no token.
C2_Witness == /\ last.op \in AuthOps
              /\ last.pre.token = ZeroToken
              /\ last.pre.credentials # ZeroCredentials
              /\ last.err = "Missing auth token"

(***************************************************************************)
(* C3: when the refresh of the pre-call check fails, the operation's own   *)
(* request is not sent, the refresh error is returned, the stored token is *)
(* what it was before the call, and no second refresh request is sent.     *)
(***************************************************************************)
C3_FailedRefreshStops == last.op \in AuthOps /\ RefreshedFirst /\ TokenError(last.sent[1]) # Nil =>
                            /\ OwnRequests(last.sent) = {}
                            /\ Len(last.sent) = 1
                            /\ last.err = TokenError(last.sent[1])
                            /\ client[1].token = last.pre.token

\* An authenticated call whose refresh the server rejects.
C3_Witness == /\ last.op \in AuthOps
              /\ RefreshedFirst
              /\ last.err = "Unauthorized: Invalid token."
              /\ last.pre.token # ZeroToken

(***************************************************************************)
(* C4: after a successful Authenticate the stored token is non-zero and is *)
(* the token returned, with the fields of the server response and          *)
(* valid_until = time of receipt + expires_in, and the stored credentials  *)
(* are the login's client id and secret with grant type "refresh_token".   *)
(***************************************************************************)
C4_AuthenticateStores == last.op = "Authenticate" /\ last.err = Nil =>
                            /\ client[1].token # ZeroToken
                            /\ client[1].token = last.tok
                            /\ client[1].token = TokenOf(last.sent[1])
                            /\ client[1].credentials = Credentials(last.sent[1].req.params.client_id, last.sent[1].req.params.client_secret, "refresh_token")

\* A granted Authenticate that took time, on a client that held other credentials.
C4_Witness == /\ last.op = "Authenticate"
              /\ last.err = Nil
              /\ last.tok.AccessToken # ""
              /\ last.sent[1].at > last.t0
              /\ last.pre.credentials \notin {ZeroCredentials, client[1].credentials}

(***************************************************************************)
(* C5, as claimed: after a failed Authenticate, whatever the state before, *)
(* the stored token is the zero value; the error is returned and no second *)
(* token request is sent.                                                  *)
(***************************************************************************)
C5_FailedAuthenticateZero == last.op = "Authenticate" /\ last.err # Nil =>
                                /\ client[1].token = ZeroToken
                                /\ Len(last.sent) = 1

(***************************************************************************)
(* C5, amended: after a failed Authenticate the stored token is what it    *)
(* was before the call, the zero value only if it was the zero value; the  *)
(* error is returned and no second token request is sent.                  *)
(***************************************************************************)
C5_FailedAuthenticateKeeps == last.op = "Authenticate" /\ last.err # Nil =>
                                 /\ client[1].token = last.pre.token
                                 /\ last.err = TokenError(last.sent[1])
                                 /\ last.tok = ZeroToken
                                 /\ Len(last.sent) = 1

\* A failed Authenticate on a client that holds a token.
C5_Witness == /\ last.op = "Authenticate"
              /\ last.err # Nil
              /\ last.pre.token # ZeroToken

(***************************************************************************)
(* C6: after a successful RefreshToken the stored token is, as a whole,    *)
(* the token of the refresh response with valid_until = time of receipt +  *)
(* expires_in, the returned token is the stored one, the credentials are   *)
(* unchanged, and a freshly issued access token differs from the one held  *)
(* before.                                                                 *)
(***************************************************************************)
C6_RefreshReplaces == last.op = "RefreshToken" /\ last.err = Nil =>
                         /\ client[1].token = TokenOf(last.sent[1])
                         /\ last.tok = client[1].token
                         /\ client[1].credentials = last.pre.credentials
                         /\ last.sent[1].resp.body.access_token # "" => client[1].token.AccessToken # last.pre.token.AccessToken

\* A granted RefreshToken that took time, on a client that held a token.
C6_Witness == /\ last.op = "RefreshToken"
              /\ last.err = Nil
              /\ last.tok.AccessToken # ""
              /\ last.pre.token.AccessToken # ""
              /\ last.sent[1].at > last.t0

(***************************************************************************)
(* C7, as claimed: RefreshToken on a client that never authenticated (zero *)
(* token, zero credentials) returns an error and the zero Token, and       *)
(* leaves the stored token at the zero value.                              *)
(***************************************************************************)
C7_RefreshWithoutAuthFails == last.op = "RefreshToken" /\ last.pre.token = ZeroToken /\ last.pre.credentials = ZeroCredentials =>
                                 /\ last.err # Nil
                                 /\ last.tok = ZeroToken
                                 /\ client[1].token = ZeroToken

(***************************************************************************)
(* C8, as claimed: every refresh request, however the client was built and *)
(* whether the refresh is explicit or triggered by the pre-call check,     *)
(* carries grant_type "refresh_token", the stored client id and secret,    *)
(* and the refresh token of the token stored when it is sent.              *)
(***************************************************************************)
C8_RefreshRequestFields == \A i \in Refreshes(last.sent) :
                              /\ last.sent[i].req.params.grant_type = "refresh_token"
                              /\ last.sent[i].req.params.client_id = last.pre.credentials.ClientId
                              /\ last.sent[i].req.params.client_secret = last.pre.credentials.ClientSecret
                              /\ last.sent[i].req.params.refresh_token = last.pre.token.RefreshToken

(***************************************************************************)
(* C9: the unauthenticated operations never fail for a missing token,      *)
(* never attach an Authorization header and never send a refresh request,  *)
(* whatever the stored token, an expired one included.                     *)
(***************************************************************************)
C9_UnauthenticatedOps == last.op \in UnauthOps =>
                            /\ last.err # "Missing auth token"
                            /\ Len(last.sent) = 1
                            /\ last.sent[1].req.auth = NoHeader
                            /\ Refreshes(last.sent) = {}

\* An unauthenticated call that succeeds on a client whose token is expiring.
C9_Witness == /\ last.op \in UnauthOps
              /\ last.err = Nil
              /\ last.pre.token # ZeroToken
              /\ last.t0 >= last.pre.token.ValidUntil - 30

(***************************************************************************)
(* C10, as claimed: for every operation, a response carrying errorType E   *)
(* and message M makes the operation return the error E + ": " + M; an     *)
(* authenticated call with a token outside the margin that the server      *)
(* rejects returns it without a refresh.                                   *)
(***************************************************************************)
C10_ApiErrorMessage == \A i \in 1..Len(last.sent) : last.sent[i].resp.net = "ok" /\ last.sent[i].resp.json /\ last.sent[i].resp.body.errorType # "" =>
                          /\ last.err = last.sent[i].resp.body.errorType \o ": " \o last.sent[i].resp.body.message
                          /\ last.op \in AuthOps /\ last.t0 < last.pre.token.ValidUntil - 30 => Refreshes(last.sent) = {}

\* The response carries a non-empty error object.
HasErrorObject(resp) == resp.net = "ok" /\ resp.json /\ (resp.body.message # "" \/ resp.body.errorType # "")

\* The calls of the operations, as opposed to the constructors.
IsOperation == last.op \notin Constructors \cup {""}

(***************************************************************************)
(* C11, as claimed: for every operation, a response whose body carries a   *)
(* non-empty error object makes the operation return a non-nil error,      *)
(* whatever the HTTP status of the response, HTTP 200 included.            *)
(***************************************************************************)
C11_ErrorObjectAlwaysFails == \A i \in 1..Len(last.sent) : HasErrorObject(last.sent[i].resp) => last.err # Nil

(***************************************************************************)
(* C12, as claimed: an operation returns a nil error only when the         *)
(* response has HTTP status 200 and no error object; every response with   *)
(* another status, an empty JSON object included, makes it return a        *)
(* non-nil error; a failed token request never changes the stored token.   *)
(***************************************************************************)
C12_SuccessOnlyOn200 == /\ last.err = Nil => \A i \in 1..Len(last.sent) : last.sent[i].resp.net = "ok" /\ last.sent[i].resp.status = "200" /\ ~HasErrorObject(last.sent[i].resp)
                        /\ \A i \in 1..Len(last.sent) : last.sent[i].resp.net = "ok" /\ last.sent[i].resp.status # "200" => last.err # Nil
                        /\ \A i \in 1..Len(last.sent) : last.sent[i].req.path = TokenPath /\ last.sent[i].resp.status # "200" => client[1].token = last.pre.token

(***************************************************************************)
(* C13: whenever an operation returns a non-nil error, the result returned *)
(* with it is the zero value of its type, also when the decoder had filled *)
(* part of the response value before it failed.                            *)
(***************************************************************************)
C13_ZeroResultOnError == IsOperation /\ last.err # Nil => last.tok = ZeroToken /\ last.data = ""

\* A call whose response had a payload the decoder read before it failed.
C13_Witness == /\ IsOperation
               /\ last.err = DecodeError
               /\ last.sent[Len(last.sent)].resp.body.data # ""
               /\ last.data = ""

(***************************************************************************)
(* C14: a transport failure on a request is returned as the transport's    *)
(* own error; the failed request is the last one of the call and is not    *)
(* sent again; the stored token and credentials are what they were before  *)
(* the failed request.                                                     *)
(***************************************************************************)
C14_TransportErrorUnchanged == \A i \in 1..Len(last.sent) : last.sent[i].resp.net = "down" =>
                                  /\ last.err = TransportError
                                  /\ i = Len(last.sent)
                                  /\ \A j \in 1..Len(last.sent) : j # i => last.sent[j].req # last.sent[i].req
                                  /\ client[1].credentials = last.pre.credentials
                                  /\ client[1].token = IF i = 1 THEN last.pre.token ELSE TokenOf(last.sent[1])

\* An authenticated call whose own request fails in transit after its refresh succeeded.
C14_Witness == /\ last.op \in AuthOps
               /\ Len(last.sent) = 2
               /\ last.sent[2].resp.net = "down"
               /\ last.sent[1].resp.body.access_token # ""
               /\ last.err = TransportError

\* A response with a success status and no error object that does not have the
\* shape the request expects: not the JSON of the result type, or without the
\* token, respectively the payload, of the result.
MismatchesShape(x) == /\ x.resp.net = "ok" /\ x.resp.status = "200" /\ ~HasErrorObject(x.resp)
                      /\ \/ ~x.resp.json
                         \/ IF x.req.path = TokenPath THEN x.resp.body.access_token = "" ELSE x.resp.body.data = ""

(***************************************************************************)
(* C15, as claimed: a response body that does not match the expected shape *)
(* of the operation never yields a nil error with a zero-value result; the *)
(* operation returns an error that is neither the transport's error nor an *)
(* API error.                                                              *)
(***************************************************************************)
C15_ShapeMismatchIsError == \A i \in 1..Len(last.sent) : MismatchesShape(last.sent[i]) =>
                               /\ ~(last.err = Nil /\ last.tok = ZeroToken /\ last.data = "")
                               /\ last.err \notin {Nil, TransportError, "Unauthorized: Invalid token."}

(***************************************************************************)
(* C16, as claimed: in every reachable state of a client the stored        *)
(* credentials are non-zero only if a password-grant Authenticate has      *)
(* succeeded on that client.                                               *)
(***************************************************************************)
C16_CredentialsOnlyAfterAuthenticate == client # <<>> /\ client[1].credentials # ZeroCredentials => authenticated

(***************************************************************************)
(* C16, amended: the stored credentials are those given at construction,   *)
(* zero for New and NewWithToken and the config's for NewFromConfig, and   *)
(* only a successful password-grant Authenticate changes them.             *)
(***************************************************************************)
C16_CredentialsFromConfigOrAuthenticate == client # <<>> =>
                                              /\ last.op \in {"New", "NewWithToken"} => client[1].credentials = ZeroCredentials
                                              /\ last.op = "NewFromConfig" => client[1].credentials = last.pre.credentials
                                              /\ IsOperation /\ client[1].credentials # last.pre.credentials => last.op = "Authenticate" /\ last.err = Nil /\ authenticated
                                              /\ ~authenticated /\ last.op # "" => client[1].credentials = last.pre.credentials

\* A client built from a config that has refreshed its token with the config's
\* credentials, without any Authenticate.
C16_Witness == /\ ~authenticated
               /\ client # <<>>
               /\ client[1].credentials # ZeroCredentials
               /\ last.op \in AuthOps
               /\ RefreshedFirst
               /\ client[1].token # last.pre.token

(***************************************************************************)
(* C17, as claimed: in every reachable state of a client the stored token  *)
(* is the zero value or the token, with valid_until = now + expires_in,    *)
(* of the client's most recent successful Authenticate or RefreshToken.    *)
(***************************************************************************)
C17_TokenZeroOrGranted == client # <<>> => client[1].token \in {ZeroToken, granted}

(***************************************************************************)
(* C17, amended: the stored token is the token given at construction (the  *)
(* zero value for New) until a token request of the client succeeds, and   *)
(* from then on the token of the most recent successful Authenticate or    *)
(* refresh, with valid_until = time of receipt + expires_in.               *)
(***************************************************************************)
C17_TokenBuiltOrGranted == client # <<>> =>
                              /\ granted # ZeroToken => client[1].token = granted
                              /\ granted = ZeroToken /\ last.op # "" => client[1].token = last.pre.token
                              /\ last.op = "New" => client[1].token = ZeroToken

\* A client built with a token whose pre-call refresh was granted and took time.
C17_Witness == /\ client # <<>>
               /\ last.op \in AuthOps
               /\ RefreshedFirst
               /\ last.sent[1].at > last.t0
               /\ granted.AccessToken # ""
               /\ client[1].token = granted
               /\ ~authenticated

(***************************************************************************)
(* C18: no operation changes the client's mode; an unauthenticated         *)
(* operation leaves token and credentials unchanged; an authenticated      *)
(* operation never changes the credentials and changes the token only by a *)
(* successful pre-call refresh: without a refresh the token is unchanged,  *)
(* whether the call succeeds or fails.                                     *)
(***************************************************************************)
C18_Frame == IsOperation =>
                /\ client[1].Mode = last.pre.Mode
                /\ last.op \in UnauthOps => client[1] = last.pre
                /\ last.op \in AuthOps => /\ client[1].credentials = last.pre.credentials
                                          /\ client[1].token # last.pre.token => RefreshedFirst /\ TokenError(last.sent[1]) = Nil /\ client[1].token = TokenOf(last.sent[1])
                                          /\ ~RefreshedFirst => client[1].token = last.pre.token

\* An authenticated call without a refresh that the server rejects.
C18_Witness == /\ last.op \in AuthOps
               /\ ~RefreshedFirst
               /\ last.err = "Unauthorized: Invalid token."
               /\ client[1].token # ZeroToken

(***************************************************************************)
(* C19: New, NewWithToken and NewFromConfig return a client and a nil      *)
(* error exactly for the modes "sandbox" and "production"; for every other *)
(* mode, the empty string included, they return no client and the error    *)
(* "Invalid mode"; no request is sent.                                     *)
(***************************************************************************)
C19_ConstructionByMode == last.op \in Constructors =>
                             /\ last.sent = <<>>
                             /\ IF last.pre.Mode \in {"sandbox", "production"} THEN client # <<>> /\ client[1].Mode = last.pre.Mode /\ last.err = Nil
                                                                              ELSE client = <<>> /\ last.err = "Invalid mode"

\* NewFromConfig with the empty mode and a config that holds a token.
C19_Witness == /\ last.op = "NewFromConfig"
               /\ last.pre.Mode = ""
               /\ last.pre.token # ZeroToken
               /\ client = <<>>
               /\ last.err = "Invalid mode"

(***************************************************************************)
(* C20: every request of a client constructed with mode sandbox, token and *)
(* refresh requests included, goes to the sandbox base URL, and every      *)
(* request of a client constructed with mode production to the production  *)
(* base URL, which is another URL.                                         *)
(***************************************************************************)
C20_BaseURLOfMode == /\ sandboxBaseURL # baseURL
                     /\ \A i \in 1..Len(last.sent) : /\ builtMode = "sandbox" => last.sent[i].req.base = sandboxBaseURL
                                                     /\ builtMode = "production" => last.sent[i].req.base = baseURL
                                                     /\ builtMode \in {"sandbox", "production"}

\* A sandbox client whose call sends a refresh request and then its own request.
C20_Witness == /\ builtMode = "sandbox"
               /\ Len(last.sent) = 2
               /\ RefreshedFirst
               /\ last.sent[1].req.base = sandboxBaseURL
               /\ last.sent[2].req.base = sandboxBaseURL

(***************************************************************************)
(* C23: the bearer value of every authenticated request is the access      *)
(* token stored in the client when the request is sent; after a successful *)
(* pre-call refresh it is the access token of the refresh response, not    *)
(* the one held before.                                                    *)
(***************************************************************************)
C23_BearerIsStoredToken == last.op \in AuthOps => \A i \in OwnRequests(last.sent) :
                              /\ last.sent[i].req.auth = "Bearer " \o (IF RefreshedFirst THEN TokenOf(last.sent[1]).AccessToken ELSE last.pre.token.AccessToken)
                              /\ last.sent[i].req.auth = "Bearer " \o client[1].token.AccessToken
                              /\ RefreshedFirst /\ last.sent[1].resp.body.access_token # last.pre.token.AccessToken => last.sent[i].req.auth # "Bearer " \o last.pre.token.AccessToken

\* An authenticated call that succeeds with the token its refresh was granted.
C23_Witness == /\ last.op \in AuthOps
               /\ RefreshedFirst
               /\ Len(last.sent) = 2
               /\ last.sent[1].resp.body.access_token # ""
               /\ last.pre.token.AccessToken # ""
               /\ last.sent[2].req.auth = "Bearer " \o last.sent[1].resp.body.access_token
               /\ last.err = Nil

\* The token held at the start of the latest call is within the margin.
Expiring == last.pre.token # ZeroToken /\ last.t0 >= last.pre.token.ValidUntil - 30

(***************************************************************************)
(* C24, as claimed: every operation sends exactly one request, except an   *)
(* authenticated operation on an expiring token, which sends one refresh   *)
(* request and then at most one request of its own.                        *)
(***************************************************************************)
C24_OneRequestPerOperation == IsOperation => IF last.op \in AuthOps /\ Expiring THEN Refreshes(last.sent) = {1} /\ OwnRequests(last.sent) \subseteq {2} /\ Len(last.sent) <= 2
                                             ELSE Len(last.sent) = 1

(***************************************************************************)
(* C24, amended: an authenticated operation on a zero token sends no       *)
(* request; on an expiring token it sends one refresh request and then at  *)
(* most one request of its own, also when the refreshed token is within    *)
(* the margin; every other operation sends exactly one request, and        *)
(* Authenticate and RefreshToken send theirs, to the token endpoint,       *)
(* without the pre-call check.  No operation sends more than two.          *)
(***************************************************************************)
C24_AtMostTwoRequests == IsOperation =>
                            /\ Len(last.sent) <= 2
                            /\ IF last.op \in AuthOps /\ last.pre.token = ZeroToken THEN last.sent = <<>>
                               ELSE IF last.op \in AuthOps /\ Expiring THEN Refreshes(last.sent) = {1} /\ OwnRequests(last.sent) \subseteq {2}
                               ELSE Len(last.sent) = 1
                            /\ last.op \in {"Authenticate", "RefreshToken"} => last.sent[1].req.path = TokenPath /\ last.err # "Missing auth token"

\* An authenticated call whose refresh is granted a token that is itself within
\* the margin, and that goes on to its own request.
C24_Witness == /\ last.op \in AuthOps
               /\ Len(last.sent) = 2
               /\ last.sent[1].resp.body.access_token # ""
               /\ last.sent[2].at >= client[1].token.ValidUntil - 30
               /\ OwnRequests(last.sent) = {2}

(***************************************************************************)
(* C25: a failed Authenticate and a failed RefreshToken leave the stored   *)
(* token and the stored credentials as they were before the call; a        *)
(* successful Authenticate writes the credentials and the token together.  *)
(***************************************************************************)
C25_FailedTokenCallKeepsClient == /\ last.op \in {"Authenticate", "RefreshToken"} /\ last.err # Nil => client[1] = last.pre
                                  /\ last.op = "Authenticate" /\ last.err = Nil => client[1].token = last.tok /\ client[1].credentials = Credentials(last.sent[1].req.params.client_id, last.sent[1].req.params.client_secret, "refresh_token")

\* A failed Authenticate on a client that holds a token and other credentials.
C25_Witness == /\ last.op = "Authenticate"
               /\ last.err # Nil
               /\ last.pre.token # ZeroToken
               /\ last.pre.credentials # ZeroCredentials
               /\ last.pre.credentials.ClientId # last.sent[1].req.params.client_id

C29_BearerNonEmpty == last.op \in AuthOps => \A i \in OwnRequests(last.sent) : last.sent[i].req.auth \notin {NoHeader, "Bearer "}

(***************************************************************************)
(* C22, as claimed: writing a Config with writeConfig and reading it with  *)
(* readConfig gives a Config equal to the one written, for every Config.   *)
(***************************************************************************)
C22_ConfigRoundTrip == roundtrip.pc = "read" => roundtrip.err = Nil /\ roundtrip.read = roundtrip.config

\* At the end of a run the client holds a non-empty access token that is not
\* the one app.Before read from the config file.
TokenChanged == client # <<>> /\ client[1].token.AccessToken # "" /\ client[1].token.AccessToken # cli.loaded.Token.AccessToken

(***************************************************************************)
(* C21: when a run ends with the client holding a non-empty access token   *)
(* other than the one read from the config file, the config file written   *)
(* at the end of the run holds the client's token and the client_id,       *)
(* client_secret and grant_type that were read, and the next run reads     *)
(* that token; otherwise app.After does not write the file.                *)
(***************************************************************************)
C21_AfterWritesChangedToken == cli.pc = "done" =>
                                  /\ TokenChanged => /\ cli.wrote
                                                     /\ file[cli.mode].exists /\ file[cli.mode].json
                                                     /\ file[cli.mode].doc.client_id = cli.loaded.Credentials.ClientId
                                                     /\ file[cli.mode].doc.client_secret = cli.loaded.Credentials.ClientSecret
                                                     /\ file[cli.mode].doc.grant_type = cli.loaded.Credentials.GrantType
                                                     /\ file[cli.mode].doc.token = [token_type |-> client[1].token.TokenType, access_token |-> client[1].token.AccessToken, refresh_token |-> client[1].token.RefreshToken, expires_in |-> client[1].token.ExpiresIn, valid_until |-> client[1].token.ValidUntil]
                                                     /\ readConfig(cli.mode, file).config.Token = client[1].token
                                  /\ ~TokenChanged => ~cli.wrote /\ file = cli.filesAtAfter

\* A run of an account command whose pre-call refresh was granted: the file
\* holds the new token with the credentials of the file.
C21_Witness == /\ cli.pc = "done"
               /\ cli.cmd \in authCommands
               /\ TokenChanged
               /\ cli.loaded.Token.AccessToken # ""
               /\ cli.loaded.Credentials.ClientId # ""
               /\ cli.wrote
               /\ file # cli.filesAtAfter

(***************************************************************************)
(* C27, as claimed: after the config command has completed successfully,   *)
(* app.After included, the config file holds the client_id and             *)
(* client_secret the user entered, grant_type "refresh_token" and the      *)
(* token obtained by Authenticate, whatever the file held before the run.  *)
(***************************************************************************)
C27_ConfigCommandSaves == cli.pc = "done" /\ cli.cmd = "config" /\ cli.exit = Nil =>
                             /\ file[cli.mode].exists /\ file[cli.mode].json
                             /\ file[cli.mode].doc.client_id = cli.entered.clientId
                             /\ file[cli.mode].doc.client_secret = cli.entered.clientSecret
                             /\ file[cli.mode].doc.grant_type = "refresh_token"
                             /\ Unmarshal(file[cli.mode].doc).Token = client[1].token

(***************************************************************************)
(* C28, as claimed: transfer create takes recipient_id first and amount    *)
(* second, as its usage says: for the arguments (a0, a1) the request       *)
(* carries recipient_id = a0 read as an integer, amount = a1, currency     *)
(* "KRW" and type "btc_to_bank"; with fewer than two arguments or an a0    *)
(* that is not an integer no request is sent.                              *)
(***************************************************************************)
C28_CreateArgumentOrder == cli.pc = "after" /\ cli.cmd = "create" =>
                              /\ \A i \in OwnRequests(last.sent) : /\ Len(cli.args) >= 2
                                                                   /\ last.sent[i].req.params.recipient_id = Atoi(cli.args[1]).n
                                                                   /\ last.sent[i].req.params.amount = cli.args[2]
                                                                   /\ last.sent[i].req.params.currency = "KRW"
                                                                   /\ last.sent[i].req.params.type = "btc_to_bank"
                              /\ Len(cli.args) < 2 => last.sent = <<>>
                              /\ Len(cli.args) >= 2 /\ Atoi(cli.args[1]).err # Nil => last.sent = <<>>

\* Both operations have returned, they ran at the same time, and the stored
\* token was within the margin when each of them began.
BothReturned == /\ \A g \in Goroutines : procs.g[g].pc = "done" /\ procs.g[g].within
                /\ procs.overlap

(***************************************************************************)
(* C30, as claimed: when two authenticated operations run concurrently on  *)
(* one Client whose stored token is within the 30-second margin, exactly   *)
(* one refresh request is sent in total, no refresh request carries a      *)
(* refresh token that a granted refresh has already consumed, and the      *)
(* request of each operation carries the access token of the token that    *)
(* is stored in the end.                                                   *)
(***************************************************************************)
C30_OneRefreshForTwo == BothReturned =>
                           /\ procs.refreshes = 1
                           /\ ~procs.reused
                           /\ \A g \in Goroutines : procs.g[g].auth # NoHeader => procs.g[g].auth = "Bearer " \o client[1].token.AccessToken

====
